---- MODULE Spec2Model ----
(***************************************************************************)
(* Traefik Rules Manager: the reconciliation core.                         *)
(*                                                                         *)
(* State: the watched directory (YAML files), the metadata index           *)
(* (index.json), the backups directory.  Operations: createRule,           *)
(* updateRule, deleteRule (server/rules-service.js), syncFromDisk          *)
(* (server/app.js) with discoverRules (server/discovery.js), atomicWrite   *)
(* (server/fs-helpers.js), and the external process that edits the         *)
(* watched directory.                                                      *)
(***************************************************************************)
EXTENDS Integers, Sequences, FiniteSets, TLC

VARIABLES
    files,        \* watched directory: file name -> parsed content of the file
    index,        \* metadata/index.json: the sequence meta.rules
    backups,      \* backups directory, oldest first: <<[name, content]>>
    nextId,       \* the next value uuidv4() returns (fresh ids are 1, 2, ...)
    discovery,    \* which revision of server/discovery.js is deployed
    last,         \* the last operation that ran and the status it answered
    steps,        \* how many operations have run
    aw,           \* one atomicWrite call in progress, step by step (SpecAW)
    dz,           \* the file watcher's debounce timer and its clock (SpecDebounce)
    procs,        \* requests in flight, one await at a time (SpecRace)
    rt,           \* a rule on its way through generateTraefikYaml and discovery (SpecRoundTrip)
    srv           \* the server: startup phase, config.dynamicPath, watched directory, last response

vars == <<files, index, backups, nextId, discovery, last, steps, aw, dz, procs, rt, srv>>

----------------------------------------------------------------------------
(* Bounds of the model *)

\* uuidv4() is drawn at most MaxIds times
MaxIds == 3

\* the runs explored hold at most MaxSteps operations
MaxSteps == 3

\* ctx.maxBackups (TRM_MAX_BACKUP_FILES), set to 1 as in the service test
MaxBackups == 1

----------------------------------------------------------------------------
(* Strings *)

StartsWith(s, p) == Len(s) >= Len(p) /\ SubSeq(s, 1, Len(p)) = p

EndsWith(s, p) == Len(s) >= Len(p) /\ SubSeq(s, Len(s) - Len(p) + 1, Len(s)) = p

\* name.endsWith('.yaml') || name.endsWith('.yml')
IsYamlFile(f) == EndsWith(f, ".yaml") \/ EndsWith(f, ".yml")

\* (r.fileName || '').replace(/\.ya?ml$/i, '')
StripYamlExt(f) ==
    IF EndsWith(f, ".yaml") THEN SubSeq(f, 1, Len(f) - 5)
    ELSE IF EndsWith(f, ".yml") THEN SubSeq(f, 1, Len(f) - 4)
    ELSE f

NameChars ==
    {"a","b","c","d","e","f","g","h","i","j","k","l","m","n","o","p","q","r",
     "s","t","u","v","w","x","y","z","A","B","C","D","E","F","G","H","I","J",
     "K","L","M","N","O","P","Q","R","S","T","U","V","W","X","Y","Z","0","1",
     "2","3","4","5","6","7","8","9","-","_"}

\* /^[a-zA-Z0-9-_]+$/.test(name)
MatchesNamePattern(s) ==
    Len(s) >= 1 /\ \A i \in 1..Len(s) : SubSeq(s, i, i) \in NameChars

\* sanitizeName: the name, or null ("" here) when it does not match
SanitizeName(name) == IF MatchesNamePattern(name) THEN name ELSE ""

\* a path with the other extension the watcher accepts
BuildYmlPath(name) == name \o ".yml"

\* path.join(dynamicPath, `${name}.yaml`), relative to the watched directory
BuildYamlPath(name) == name \o ".yaml"

----------------------------------------------------------------------------
(* YAML documents.  A file's content is kept parsed: kind "yaml" with the  *)
(* routers and services of http, in document order; kind "garbage" for     *)
(* text yaml.load rejects; kind "truncated" for a file cut short by a      *)
(* failed direct write.                                                    *)

Urls == {"http://a:80", "http://b:80"}

\* a router rule expression, Host(<backtick>h.example.com<backtick>)
HostRule == "Host(h.example.com)"

Router(n, svc) == [name |-> n, service |-> svc, rule |-> HostRule]

Service(n, url) == [name |-> n, servers |-> <<url>>]

YamlDoc(rs, ss) == [kind |-> "yaml", routers |-> rs, services |-> ss]

Garbage == [kind |-> "garbage", routers |-> <<>>, services |-> <<>>]

Truncated == [kind |-> "truncated", routers |-> <<>>, services |-> <<>>]

\* generateTraefikYaml: validateRule (removeAdditional: 'all') has stripped
\* routerName and serviceName, so router and service carry rule.name
GenerateTraefikYaml(rule) ==
    [kind |-> "yaml",
     routers |-> <<[name |-> rule.name, service |-> rule.name, rule |-> HostRule]>>,
     services |-> <<[name |-> rule.name, servers |-> rule.backendUrl]>>]

HasService(doc, n) == \E i \in DOMAIN doc.services : doc.services[i].name = n

ServiceOf(doc, n) ==
    doc.services[CHOOSE i \in DOMAIN doc.services : doc.services[i].name = n]

\* parseTraefikYaml succeeds (yaml.load does not throw) and yields an object
Parses(doc) == doc.kind = "yaml"

----------------------------------------------------------------------------
(* Discovery *)

\* server/discovery.js as named in the tree: the first router only, and the
\* service looked up under the router's own name
ExtractRuleFromYaml(doc, fileName) ==
    IF ~Parses(doc) \/ doc.routers = <<>> \/ doc.services = <<>> THEN <<>>
    ELSE LET router == doc.routers[1]
         IN  IF ~HasService(doc, router.name) \/ router.rule = "" THEN <<>>
             ELSE <<[name |-> router.name,
                     backendUrl |-> ServiceOf(doc, router.name).servers,
                     fileName |-> fileName]>>

RECURSIVE ExtractRulesFrom(_, _, _)
ExtractRulesFrom(doc, fileName, i) ==
    IF i > Len(doc.routers) THEN <<>>
    ELSE LET router == doc.routers[i]
             serviceName == IF router.service = "" THEN router.name ELSE router.service
             rest == ExtractRulesFrom(doc, fileName, i + 1)
         IN  IF ~HasService(doc, serviceName) \/ router.rule = "" THEN rest
             ELSE <<[name |-> router.name,
                     backendUrl |-> ServiceOf(doc, serviceName).servers,
                     fileName |-> fileName]>> \o rest

\* the other revision of server/discovery.js: every router, and the service
\* the router references
ExtractRulesFromYaml(doc, fileName) ==
    IF ~Parses(doc) THEN <<>> ELSE ExtractRulesFrom(doc, fileName, 1)

\* the rules one file yields, without their ids
Extract(rev, doc, fileName) ==
    IF rev = "extractRuleFromYaml" THEN ExtractRuleFromYaml(doc, fileName)
    ELSE ExtractRulesFromYaml(doc, fileName)

\* fs.readdir enumerates the directory in this order
FileOrder == <<"app.yaml", "app.yml", "app2.yaml">>

RECURSIVE ListFrom(_, _)
ListFrom(fs, i) ==
    IF i > Len(FileOrder) THEN <<>>
    ELSE (IF FileOrder[i] \in DOMAIN fs /\ IsYamlFile(FileOrder[i])
          THEN <<FileOrder[i]>> ELSE <<>>) \o ListFrom(fs, i + 1)

\* listYamlFiles
ListYamlFiles(fs) == ListFrom(fs, 1)

\* a scan that gives up at the first file that does not parse
RECURSIVE CandidatesUntilFailure(_, _, _)
CandidatesUntilFailure(rev, fs, listing) ==
    IF listing = <<>> THEN <<>>
    ELSE IF ~Parses(fs[Head(listing)]) THEN <<>>
    ELSE Extract(rev, fs[Head(listing)], Head(listing))
             \o CandidatesUntilFailure(rev, fs, Tail(listing))

\* discoverRules: for (const file of files) { try { ... } catch { } }
RECURSIVE Candidates(_, _, _)
Candidates(rev, fs, listing) ==
    IF listing = <<>> THEN <<>>
    ELSE Extract(rev, fs[Head(listing)], Head(listing))
             \o Candidates(rev, fs, Tail(listing))

\* new Map(existing.rules.map(r => [r.name, r.id])): a later entry of the
\* same name replaces the earlier one
IdMap(rules) ==
    [n \in {rules[i].name : i \in DOMAIN rules} |->
        rules[CHOOSE i \in DOMAIN rules :
                  /\ rules[i].name = n
                  /\ \A j \in DOMAIN rules : j > i => rules[j].name # n].id]

\* the key the id resolver is called with: idResolver(routerName, filePath),
\* of which syncFromDisk's resolver reads the first argument only
ResolverKey(cand) == cand.name

\* discoverRules with syncFromDisk's resolver (name) => idMap.get(name) || uuidv4()
RECURSIVE Resolve(_, _, _)
Resolve(cands, idMap, next) ==
    IF cands = <<>> THEN [rules |-> <<>>, next |-> next]
    ELSE LET c == Head(cands)
             known == ResolverKey(c) \in DOMAIN idMap
             id == IF known THEN idMap[ResolverKey(c)] ELSE next
             rest == Resolve(Tail(cands), idMap, IF known THEN next ELSE next + 1)
         IN  [rules |-> <<[id |-> id, name |-> c.name, fileName |-> c.fileName,
                           backendUrl |-> c.backendUrl]>> \o rest.rules,
              next |-> rest.next]

DiscoverRules(rev, fs, idMap, next) ==
    Resolve(Candidates(rev, fs, ListYamlFiles(fs)), idMap, next)

----------------------------------------------------------------------------
(* atomicWrite, as one call.  The call's outcome depends on which of its   *)
(* filesystem steps fail.                                                  *)

\* what fails inside one atomicWrite call:
\*   "none"   nothing: temp file written and renamed over the target
\*   "temp"   fs.writeFile(tempPath) or fs.rename fails; the catch block's
\*            direct fs.writeFile(filePath) succeeds
\*   "open"   as "temp", and the direct fs.writeFile fails before it has
\*            opened (and truncated) the target
\*   "write"  as "temp", and the direct fs.writeFile fails after it has
\*            opened the target with O_TRUNC

\* atomicWrite(filePath, content): whether it returns or throws, and what
\* the target holds afterwards
AtomicWrite(fault) ==
    CASE fault = "none"  -> [ok |-> TRUE, target |-> "new"]
      [] fault = "temp"  -> [ok |-> TRUE, target |-> "new"]
      [] fault = "open"  -> [ok |-> FALSE, target |-> "old"]
      [] fault = "write" -> [ok |-> FALSE, target |-> "truncated"]

\* the watched directory after atomicWrite(path, content)
WriteRuleFile(fs, path, content, fault) ==
    LET out == AtomicWrite(fault)
        put(c) == [f \in DOMAIN fs \cup {path} |-> IF f = path THEN c ELSE fs[f]]
    IN  CASE out.target = "new" -> put(content)
          [] out.target = "old" -> fs
          [] out.target = "truncated" -> put(Truncated)

\* a save that appends the new rules to the ones index.json holds
MergeIndex(old, new, fault) == old \o new

\* saveMetadata then loadMetadata: index.json cut short is not JSON, and
\* readJson(file, { rules: [] }) answers the fallback for it
WriteIndex(old, new, fault) ==
    LET out == AtomicWrite(fault)
    IN  CASE out.target = "new" -> new
          [] out.target = "old" -> old
          [] out.target = "truncated" -> <<>>

\* a missing file, to a reader
Absent == [kind |-> "absent", routers |-> <<>>, services |-> <<>>]

\* what a reader of the file finds
ReadFile(fs, path) == IF path \in DOMAIN fs THEN fs[path] ELSE Absent

\* a removal that leaves the file where it is
KeepFile(fs, path) == fs

\* removeFileSafe: fs.unlink, ENOENT ignored
RemoveFileSafe(fs, path) == [f \in DOMAIN fs \ {path} |-> fs[f]]

----------------------------------------------------------------------------
(* Backups *)

\* backupPath: `${name}-${stamp}.yaml`, the stamp being
\* new Date().toISOString().replace(/[:.]/g, '-')
BackupFileName(b) == b.name \o "-" \o "2026-11-03T10-00-00-000Z" \o ".yaml"

\* copyFileSafe(filePath, backupFile).catch(() => {}): no copy when the
\* source does not exist
CopyToBackup(bk, fs, path, name) ==
    IF path \in DOMAIN fs THEN Append(bk, [name |-> name, content |-> fs[path]])
    ELSE bk

\* file.startsWith(prefix) && file.endsWith('.yaml')
IsCandidate(b, name) ==
    StartsWith(BackupFileName(b), name \o "-") /\ EndsWith(BackupFileName(b), ".yaml")

\* pruneBackups: of the candidates, newest first, all but the first
\* maxBackups are deleted (bk is kept oldest first)
PruneBackups(bk, name, maxBackups) ==
    IF maxBackups <= 0 THEN bk
    ELSE LET cand == {i \in DOMAIN bk : IsCandidate(bk[i], name)}
             keep == {i \in DOMAIN bk :
                         i \in cand => Cardinality({j \in cand : j > i}) < maxBackups}
             F[i \in 0..Len(bk)] ==
                 IF i = 0 THEN <<>>
                 ELSE IF i \in keep THEN Append(F[i - 1], bk[i]) ELSE F[i - 1]
         IN  F[Len(bk)]

----------------------------------------------------------------------------
(* Payloads and validation *)

\* validateRule, with removeAdditional: 'all': the properties the schema
\* does not name (previousName among them) are removed from the rule
StripAdditional(input) ==
    [name |-> input.name, backendUrl |-> input.backendUrl, previousName |-> ""]

\* a schema that accepts every rule
ValidateAnything(rule) == TRUE

\* ruleSchema: name matches the pattern, backendUrl has minItems 1
ValidateRule(rule) == MatchesNamePattern(rule.name) /\ Len(rule.backendUrl) >= 1

\* the duplicate check looking at the file names instead of the rule names
NameExistsByFileName(rules, name) == \E i \in DOMAIN rules : rules[i].fileName = name

\* meta.rules.some(r => r.name === rule.name)
NameExists(rules, name) == \E i \in DOMAIN rules : rules[i].name = name

\* meta.rules.some(r => r.name === cleanName && r.id !== targetId)
NameOwnedByOther(rules, name, targetId) ==
    \E i \in DOMAIN rules : rules[i].name = name /\ rules[i].id # targetId

\* meta.rules.findIndex(r => r.id === id), 0 for -1
FindIndexById(rules, id) ==
    IF \E i \in DOMAIN rules : rules[i].id = id
    THEN CHOOSE i \in DOMAIN rules :
             rules[i].id = id /\ \A j \in 1..(i - 1) : rules[j].id # id
    ELSE 0

\* r.name === n || (r.fileName || '').replace(/\.ya?ml$/i, '') === n
NameOrStemIs(r, n) == r.name = n \/ StripYamlExt(r.fileName) = n

\* meta.rules.findIndex(r => r.name === n || stem(r.fileName) === n), 0 for -1
FindIndexByName(rules, n) ==
    IF \E i \in DOMAIN rules : NameOrStemIs(rules[i], n)
    THEN CHOOSE i \in DOMAIN rules :
             NameOrStemIs(rules[i], n) /\ \A j \in 1..(i - 1) : ~NameOrStemIs(rules[j], n)
    ELSE 0

\* updateRule's lookup of the entry to modify: by id, else by
\* rule.previousName, else by rule.name
FindTarget(rules, id, rule) ==
    LET i1 == FindIndexById(rules, id)
        i2 == IF i1 = 0 /\ rule.previousName # ""
              THEN FindIndexByName(rules, rule.previousName) ELSE i1
    IN  IF i2 = 0 /\ rule.name # "" THEN FindIndexByName(rules, rule.name) ELSE i2

\* meta.rules.splice(index, 1)
Splice(rules, i) == SubSeq(rules, 1, i - 1) \o SubSeq(rules, i + 1, Len(rules))

Result(op, status) == [op |-> op, status |-> status]

\* one more operation runs
Tick == steps < MaxSteps /\ steps' = steps + 1

----------------------------------------------------------------------------
(* The operations.  Each takes the fault injected into its atomicWrite     *)
(* calls: primary = the rule file's write, meta = index.json's write.      *)

\* syncFromDisk
SyncFromDisk(meta) ==
    /\ Tick
    /\ LET d == DiscoverRules(discovery, files, IdMap(index), nextId)
       IN  /\ d.next <= MaxIds + 1
           /\ index' = WriteIndex(index, d.rules, meta)
           /\ nextId' = d.next
           /\ last' = Result("sync", IF AtomicWrite(meta).ok THEN 200 ELSE 500)
           /\ UNCHANGED <<files, backups, discovery, aw, dz, procs, rt, srv>>

\* createRule(ctx, input)
CreateRule(input, primary, meta) ==
    /\ Tick
    /\ LET rule == StripAdditional(input)
           cleanName == SanitizeName(rule.name)
           yamlContent == GenerateTraefikYaml(rule)
           filePath == BuildYamlPath(cleanName)
           storedRule == [id |-> nextId, name |-> rule.name, fileName |-> filePath,
                          backendUrl |-> rule.backendUrl]
       IN  IF ~ValidateRule(rule) \/ cleanName = ""
           THEN /\ last' = Result("create", 400)
                /\ UNCHANGED <<files, index, backups, nextId, discovery, aw, dz, procs, rt, srv>>
           ELSE IF NameExists(index, rule.name)
           THEN /\ last' = Result("create", 409)
                /\ UNCHANGED <<files, index, backups, nextId, discovery, aw, dz, procs, rt, srv>>
           ELSE IF ~AtomicWrite(primary).ok
           THEN /\ files' = WriteRuleFile(files, filePath, yamlContent, primary)
                /\ last' = Result("create", 500)
                /\ UNCHANGED <<index, backups, nextId, discovery, aw, dz, procs, rt, srv>>
           ELSE /\ nextId <= MaxIds
                /\ files' = WriteRuleFile(files, filePath, yamlContent, primary)
                /\ index' = WriteIndex(index, Append(index, storedRule), meta)
                /\ nextId' = nextId + 1
                /\ last' = Result("create", IF AtomicWrite(meta).ok THEN 201 ELSE 500)
                /\ UNCHANGED <<backups, discovery, aw, dz, procs, rt, srv>>

\* The operations of updateRule and deleteRule beside the primary write:
\* the backup copy, the pruning of the backups, the removal of the old file.
\* "none": all of them succeed; otherwise the named one fails with an error
\* other than ENOENT (EACCES, EPERM, EIO).
SideFaults == {"none", "copy", "prune", "unlink"}

\* copyFileSafe(...).catch(() => {}): a failed copy leaves no backup
CopyOrSkip(bk, fs, path, name, side) ==
    IF side = "copy" THEN bk ELSE CopyToBackup(bk, fs, path, name)

\* pruneBackups rejects when one of its removeFileSafe calls rejects: there
\* is a backup to delete and its unlink fails
PruneThrows(bk, name, maxBackups, side) ==
    side = "prune" /\ PruneBackups(bk, name, maxBackups) # bk

\* the id the client put in the request
ClientId(rules, i, id) == id

\* const targetId = meta.rules[index]?.id || id, for an entry that has an id
TargetId(rules, i, id) == rules[i].id

\* updateRule(ctx, id, input), with the outcome of its side operations
UpdateRuleWith(id, input, primary, meta, side) ==
    /\ Tick
    /\ LET rule == StripAdditional(input)
           i == FindTarget(index, id, rule)
           cleanName == SanitizeName(rule.name)
           targetId == TargetId(index, i, id)
           yamlContent == GenerateTraefikYaml(rule)
           filePath == BuildYamlPath(cleanName)
           previous == index[i]
           copied == CopyOrSkip(backups, files, filePath, cleanName, side)
           written == WriteRuleFile(files, filePath, yamlContent, primary)
           cleaned == IF previous.name # "" /\ previous.name # cleanName /\ side # "unlink"
                      THEN RemoveFileSafe(written, BuildYamlPath(previous.name))
                      ELSE written
           storedRule == [id |-> targetId, name |-> rule.name, fileName |-> filePath,
                          backendUrl |-> rule.backendUrl]
       IN  IF ~ValidateRule(rule)
           THEN /\ last' = Result("update", 400)
                /\ UNCHANGED <<files, index, backups, nextId, discovery, aw, dz, procs, rt, srv>>
           ELSE IF i = 0
           THEN /\ last' = Result("update", 404)
                /\ UNCHANGED <<files, index, backups, nextId, discovery, aw, dz, procs, rt, srv>>
           ELSE IF cleanName = ""
           THEN /\ last' = Result("update", 400)
                /\ UNCHANGED <<files, index, backups, nextId, discovery, aw, dz, procs, rt, srv>>
           ELSE IF NameOwnedByOther(index, cleanName, targetId)
           THEN /\ last' = Result("update", 409)
                /\ UNCHANGED <<files, index, backups, nextId, discovery, aw, dz, procs, rt, srv>>
           ELSE IF ~AtomicWrite(primary).ok \/ PruneThrows(copied, cleanName, MaxBackups, side)
           THEN /\ files' = written
                /\ backups' = copied
                /\ last' = Result("update", 500)
                /\ UNCHANGED <<index, nextId, discovery, aw, dz, procs, rt, srv>>
           ELSE /\ files' = cleaned
                /\ backups' = PruneBackups(copied, cleanName, MaxBackups)
                /\ index' = WriteIndex(index, [index EXCEPT ![i] = storedRule], meta)
                /\ last' = Result("update", IF AtomicWrite(meta).ok THEN 200 ELSE 500)
                /\ UNCHANGED <<nextId, discovery, aw, dz, procs, rt, srv>>

\* updateRule when every side operation succeeds
UpdateRule(id, input, primary, meta) ==
    UpdateRuleWith(id, input, primary, meta, "none")

\* deleteRule(ctx, id), with the outcome of its side operations; "unlink" is
\* here the failure of removeFileSafe(filePath), which is not caught
DeleteRuleWith(id, meta, side) ==
    /\ Tick
    /\ LET i == FindIndexById(index, id)
           rule == index[i]
           filePath == BuildYamlPath(rule.name)
           copied == CopyOrSkip(backups, files, filePath, rule.name, side)
       IN  IF i = 0
           THEN /\ last' = Result("delete", 404)
                /\ UNCHANGED <<files, index, backups, nextId, discovery, aw, dz, procs, rt, srv>>
           ELSE IF PruneThrows(copied, rule.name, MaxBackups, side)
           THEN /\ backups' = copied
                /\ last' = Result("delete", 500)
                /\ UNCHANGED <<files, index, nextId, discovery, aw, dz, procs, rt, srv>>
           ELSE IF side = "unlink" /\ filePath \in DOMAIN files
           THEN /\ backups' = PruneBackups(copied, rule.name, MaxBackups)
                /\ last' = Result("delete", 500)
                /\ UNCHANGED <<files, index, nextId, discovery, aw, dz, procs, rt, srv>>
           ELSE /\ backups' = PruneBackups(copied, rule.name, MaxBackups)
                /\ files' = RemoveFileSafe(files, filePath)
                /\ index' = WriteIndex(index, Splice(index, i), meta)
                /\ last' = Result("delete", IF AtomicWrite(meta).ok THEN 204 ELSE 500)
                /\ UNCHANGED <<nextId, discovery, aw, dz, procs, rt, srv>>

\* deleteRule when every side operation succeeds
DeleteRule(id, meta) ==
    DeleteRuleWith(id, meta, "none")

----------------------------------------------------------------------------
(* The external process (an editor, a deployment script) that changes the  *)
(* watched directory behind the service.                                   *)

SingleRouterDoc(n, u) == YamlDoc(<<Router(n, n)>>, <<Service(n, u)>>)

SingleRouterDocs ==
    {SingleRouterDoc("app", "http://a:80"), SingleRouterDoc("app", "http://b:80"),
     SingleRouterDoc("app2", "http://a:80")}

\* one file that defines two routers, each with its own service
TwoRouterDoc ==
    YamlDoc(<<Router("app", "app"), Router("app2", "app2")>>,
            <<Service("app", "http://a:80"), Service("app2", "http://a:80")>>)

ExternalDocs == SingleRouterDocs \cup {TwoRouterDoc, Garbage}

\* a file is added, or an existing file is rewritten
ExternalWrite(f, doc) ==
    /\ Tick
    /\ ReadFile(files, f) # doc
    /\ files' = [g \in DOMAIN files \cup {f} |-> IF g = f THEN doc ELSE files[g]]
    /\ last' = Result(IF f \in DOMAIN files THEN "extChange" ELSE "extAdd", 0)
    /\ UNCHANGED <<index, backups, nextId, discovery, aw, dz, procs, rt, srv>>

\* a file is removed
ExternalRemove(f) ==
    /\ Tick
    /\ f \in DOMAIN files
    /\ files' = RemoveFileSafe(files, f)
    /\ last' = Result("extUnlink", 0)
    /\ UNCHANGED <<index, backups, nextId, discovery, aw, dz, procs, rt, srv>>

\* a file is renamed to a name not in use, content unchanged
ExternalRename(f, g) ==
    /\ Tick
    /\ f \in DOMAIN files
    /\ g \notin DOMAIN files
    /\ files' = [h \in (DOMAIN files \ {f}) \cup {g} |-> IF h = g THEN files[f] ELSE files[h]]
    /\ last' = Result("extRename", 0)
    /\ UNCHANGED <<index, backups, nextId, discovery, aw, dz, procs, rt, srv>>

----------------------------------------------------------------------------
(* The service with whole operations *)

Payload(n, urls, prev) == [name |-> n, backendUrl |-> urls, previousName |-> prev]

\* valid payloads, a name that fails the pattern, an empty backendUrl, and a
\* rename that carries previousName
Payloads ==
    {Payload("app", <<"http://a:80">>, ""), Payload("app", <<"http://b:80">>, ""),
     Payload("app2", <<"http://a:80">>, ""),
     Payload("bad name", <<"http://a:80">>, ""), Payload("app", <<>>, "")}

\* the faults injected into one operation: <<primary, meta>>, at most one
Faults == {<<"none", "none">>, <<"open", "none">>, <<"write", "none">>}

Ids == 1..MaxIds

\* the files the external process writes
WatchedNames == {"app.yaml", "app2.yaml"}

\* no atomicWrite call is in progress
AwIdle ==
    [pc |-> "idle", path |-> "", content |-> Absent, tempFailed |-> FALSE,
     direct |-> FALSE, seen |-> Absent]

\* the requests in flight: createRule calls (c1 and c3 for one name, c2 for
\* another) and syncFromDisk
ProcNames == {"c1", "c2", "c3", "s"}

\* no request has started
ProcsIdle ==
    [p \in ProcNames |->
        [pc |-> "idle", meta |-> <<>>, id |-> 0, out |-> <<>>, status |-> 0, passes |-> 0]]

\* no rule is being converted
RtIdle == [pc |-> "idle"]

\* config.dynamicPath as the process starts (TRAEFIK_DYNAMIC_CONFIG_PATH)
StartPath == "/config/dynamic"

\* no request has been answered
NoResponse == [route |-> "", status |-> 0]

\* the server started and listening, on the directory it was started with
SrvIdle ==
    [phase |-> "listening", dynamicPath |-> StartPath, watched |-> StartPath,
     resp |-> NoResponse]

\* the watcher just started: no event seen, no timer set, the process is
\* alive, no pass has failed
DzIdle ==
    [now |-> 0, timers |-> {}, timer |-> 0, h |-> 0, lastEvent |-> -1,
     kind |-> "", events |-> 0, syncs |-> 0, early |-> FALSE, ticks |-> 0,
     alive |-> TRUE, after |-> "none"]

Dir1(f, doc) == [g \in {f} |-> doc]

Dir2(f1, doc1, f2, doc2) == [g \in {f1, f2} |-> IF g = f1 THEN doc1 ELSE doc2]

\* what the watched directory holds when the service starts: nothing, one
\* rule file, or two files that define a router of the same name
InitialDirs ==
    {<<>>,
     Dir1("app.yaml", SingleRouterDoc("app", "http://a:80")),
     Dir2("app.yaml", SingleRouterDoc("app", "http://a:80"),
          "app2.yaml", SingleRouterDoc("app", "http://a:80"))}

\* createApp: initStorage, then syncFromDisk on the directory as found
Init ==
    /\ files \in InitialDirs
    /\ discovery \in {"extractRuleFromYaml", "extractRulesFromYaml"}
    /\ index = DiscoverRules(discovery, files, IdMap(<<>>), 1).rules
    /\ nextId = DiscoverRules(discovery, files, IdMap(<<>>), 1).next
    /\ backups = <<>>
    /\ last = Result("sync", 200)
    /\ steps = 0
    /\ aw = AwIdle
    /\ dz = DzIdle
    /\ procs = ProcsIdle
    /\ rt = RtIdle
    /\ srv = SrvIdle

Next ==
    \/ \E ft \in Faults : SyncFromDisk(ft[2])
    \/ \E input \in Payloads, ft \in Faults : CreateRule(input, ft[1], ft[2])
    \/ \E id \in Ids, input \in Payloads, ft \in Faults :
           UpdateRule(id, input, ft[1], ft[2])
    \/ \E id \in Ids, ft \in Faults : DeleteRule(id, ft[2])
    \/ \E f \in WatchedNames, doc \in ExternalDocs : ExternalWrite(f, doc)
    \/ \E f \in WatchedNames : ExternalRemove(f)
    \/ \E f \in WatchedNames, g \in WatchedNames : ExternalRename(f, g)

Spec == Init /\ [][Next]_vars

----------------------------------------------------------------------------
(* Properties *)

ServiceOps == {"sync", "create", "update", "delete"}

\* the rule that the file behind entry e yields today for router n
YieldsFrom(e, n) ==
    IF e.fileName \in DOMAIN files
    THEN LET cs == Extract(discovery, files[e.fileName], e.fileName)
         IN  {cs[k] : k \in {k \in DOMAIN cs : cs[k].name = n}}
    ELSE {}

\* a syncFromDisk pass that ran to its end
SyncPass == last'.op = "sync" /\ last'.status = 200 /\ steps' = steps + 1

\* C1: after any sequence of createRule, updateRule, deleteRule and
\* syncFromDisk calls and external file changes, no two entries of the
\* metadata index have the same name.
C1_UniqueNames ==
    last.op \in ServiceOps =>
        \A i, j \in DOMAIN index : i # j => index[i].name # index[j].name

\* C2: after any such sequence no two entries of the index have the same id.
C2_UniqueIds ==
    last.op \in ServiceOps =>
        \A i, j \in DOMAIN index : i # j => index[i].id # index[j].id

\* C3: when the backend URL inside an entry's file was changed externally
\* (file name and router name unchanged), the next syncFromDisk leaves an
\* entry with the same id whose backendUrl is the file's new value.
C3_IdKeptAcrossContentEdit ==
    [][(last.op = "extChange" /\ SyncPass) =>
          \A i \in DOMAIN index : \A c \in YieldsFrom(index[i], index[i].name) :
              c.backendUrl # index[i].backendUrl =>
                  \E j \in DOMAIN index' :
                      /\ index'[j].id = index[i].id
                      /\ index'[j].backendUrl = c.backendUrl]_vars

\* the file behind e defines a router, but none of e's name any more
RouterRenamed(e) ==
    /\ e.fileName \in DOMAIN files
    /\ Extract(discovery, files[e.fileName], e.fileName) # <<>>
    /\ YieldsFrom(e, e.name) = {}

\* C4: when the router name inside a file was changed externally and the
\* file kept its name, the next syncFromDisk keeps the rule's id (the id is
\* resolved by the filename stem).
C4_IdKeptAcrossRouterRename ==
    [][(last.op = "extChange" /\ SyncPass) =>
          \A i \in DOMAIN index :
              RouterRenamed(index[i]) =>
                  \E j \in DOMAIN index' :
                      /\ index'[j].fileName = index[i].fileName
                      /\ index'[j].id = index[i].id]_vars

\* the file behind e is gone and a file the index does not know defines
\* e's router: e's file was renamed
FileRenamed(e) ==
    /\ e.fileName \notin DOMAIN files
    /\ \E g \in DOMAIN files :
           /\ \A k \in DOMAIN index : index[k].fileName # g
           /\ \E k \in DOMAIN Extract(discovery, files[g], g) :
                  Extract(discovery, files[g], g)[k].name = e.name

\* C5: after app.yaml was renamed externally to app2.yaml, router name
\* unchanged, the next syncFromDisk leaves no entry with the original id.
C5_NewIdAfterFileRename ==
    [][(last.op = "extRename" /\ SyncPass) =>
          \A i \in DOMAIN index :
              FileRenamed(index[i]) =>
                  \A j \in DOMAIN index' : index'[j].id # index[i].id]_vars

\* the rules of an index with their ids, as a set
RuleSet(rules) ==
    {<<rules[i].id, rules[i].name, rules[i].fileName>> : i \in DOMAIN rules}

\* C6: a second syncFromDisk pass over an unchanged directory yields the
\* same set of rules with the same ids.
C6_SyncIdempotent ==
    [][(last.op = "sync" /\ last.status = 200 /\ SyncPass) =>
          RuleSet(index') = RuleSet(index)]_vars

\* C7: createRule with a valid payload whose name an index entry already
\* has answers 409 and changes neither the index nor any file; an index
\* that had exactly one entry of that name still has exactly one.
C7_DuplicateCreateRejected ==
    [][\A input \in Payloads :
          (/\ ValidateRule(StripAdditional(input))
           /\ \E i \in DOMAIN index : index[i].name = input.name
           /\ \E ft \in Faults : CreateRule(input, ft[1], ft[2]))
          => /\ last' = Result("create", 409)
             /\ index' = index
             /\ files' = files
             /\ backups' = backups
             /\ LET CountName(rules) ==
                        Cardinality({i \in DOMAIN rules : rules[i].name = input.name})
                IN  CountName(index) = 1 => CountName(index') = 1]_vars

\* a createRule call was answered 409
C7_Witness == last = Result("create", 409)

\* C8: when the write of the primary YAML file fails during updateRule,
\* updateRule fails and both the files on disk and the index are unchanged.
C8_FailedUpdateChangesNothing ==
    [][(\E id \in Ids, input \in Payloads, primary \in {"open", "write"} :
            /\ UpdateRule(id, input, primary, "none")
            /\ last'.status = 500)
          => /\ index' = index
             /\ files' = files]_vars

----------------------------------------------------------------------------
(* atomicWrite, one filesystem call at a time, with a concurrent reader    *)
(* (discoverRules reading a rule file, Traefik reading it).  aw.pc is the  *)
(* call the writer is about to make; every call may fail.                  *)

AwTargets == {"app.yaml", "app2.yaml"}

AwContents == {SingleRouterDoc("app", "http://a:80"), SingleRouterDoc("app", "http://b:80")}

\* a caller enters atomicWrite(filePath, content)
AwCall(path, content) ==
    /\ aw.pc = "idle"
    /\ aw' = [aw EXCEPT !.pc = "ensureDir", !.path = path, !.content = content,
                        !.tempFailed = FALSE, !.direct = FALSE]
    /\ UNCHANGED <<files, index, backups, nextId, discovery, last, steps, dz, procs, rt, srv>>

\* try: await ensureDir(dir)
AwEnsureDir(ok) ==
    /\ aw.pc = "ensureDir"
    /\ aw' = [aw EXCEPT !.pc = IF ok THEN "writeTemp" ELSE "catchEnsureDir",
                        !.tempFailed = ~ok]
    /\ UNCHANGED <<files, index, backups, nextId, discovery, last, steps, dz, procs, rt, srv>>

\* try: await fs.writeFile(tempPath, content): the temp file is not a YAML
\* file of the directory, the target is untouched
AwWriteTemp(ok) ==
    /\ aw.pc = "writeTemp"
    /\ aw' = [aw EXCEPT !.pc = IF ok THEN "rename" ELSE "catchEnsureDir",
                        !.tempFailed = ~ok]
    /\ UNCHANGED <<files, index, backups, nextId, discovery, last, steps, dz, procs, rt, srv>>

\* try: await fs.rename(tempPath, filePath): the target changes in one step
AwRename(ok) ==
    /\ aw.pc = "rename"
    /\ files' = IF ok
                THEN [f \in DOMAIN files \cup {aw.path} |->
                         IF f = aw.path THEN aw.content ELSE files[f]]
                ELSE files
    /\ aw' = [aw EXCEPT !.pc = IF ok THEN "returned" ELSE "catchEnsureDir",
                        !.tempFailed = ~ok]
    /\ UNCHANGED <<index, backups, nextId, discovery, last, steps, dz, procs, rt, srv>>

\* catch: await ensureDir(dir)
AwCatchEnsureDir(ok) ==
    /\ aw.pc = "catchEnsureDir"
    /\ aw' = [aw EXCEPT !.pc = IF ok THEN "catchOpen" ELSE "thrown"]
    /\ UNCHANGED <<files, index, backups, nextId, discovery, last, steps, dz, procs, rt, srv>>

\* catch: fs.writeFile(filePath, content) opens the target with flag 'w',
\* which truncates it
AwCatchOpen(ok) ==
    /\ aw.pc = "catchOpen"
    /\ files' = IF ok
                THEN [f \in DOMAIN files \cup {aw.path} |->
                         IF f = aw.path THEN Truncated ELSE files[f]]
                ELSE files
    /\ aw' = [aw EXCEPT !.pc = IF ok THEN "catchWrite" ELSE "thrown", !.direct = ok]
    /\ UNCHANGED <<index, backups, nextId, discovery, last, steps, dz, procs, rt, srv>>

\* catch: fs.writeFile(filePath, content) writes the bytes into the target
AwCatchWrite(ok) ==
    /\ aw.pc = "catchWrite"
    /\ files' = IF ok THEN [files EXCEPT ![aw.path] = aw.content] ELSE files
    /\ aw' = [aw EXCEPT !.pc = IF ok THEN "returned" ELSE "thrown"]
    /\ UNCHANGED <<index, backups, nextId, discovery, last, steps, dz, procs, rt, srv>>

\* the call is over (it returned or threw); the caller may call again
AwDone ==
    /\ aw.pc \in {"returned", "thrown"}
    /\ aw' = [aw EXCEPT !.pc = "idle"]
    /\ UNCHANGED <<files, index, backups, nextId, discovery, last, steps, dz, procs, rt, srv>>

\* a concurrent reader: fs.readFile(file, 'utf8') of the target
AwRead(path) ==
    /\ aw.pc \notin {"idle", "returned", "thrown"}
    /\ path = aw.path
    /\ aw' = [aw EXCEPT !.seen = ReadFile(files, path)]
    /\ UNCHANGED <<files, index, backups, nextId, discovery, last, steps, dz, procs, rt, srv>>

InitAW ==
    /\ files \in {<<>>, Dir1("app.yaml", SingleRouterDoc("app", "http://a:80"))}
    /\ discovery = "extractRuleFromYaml"
    /\ index = <<>>
    /\ nextId = 1
    /\ backups = <<>>
    /\ last = Result("sync", 200)
    /\ steps = 0
    /\ aw = AwIdle
    /\ dz = DzIdle
    /\ procs = ProcsIdle
    /\ rt = RtIdle
    /\ srv = SrvIdle

NextAW ==
    \/ \E path \in AwTargets, content \in AwContents : AwCall(path, content)
    \/ \E ok \in BOOLEAN : AwEnsureDir(ok)
    \/ \E ok \in BOOLEAN : AwWriteTemp(ok)
    \/ \E ok \in BOOLEAN : AwRename(ok)
    \/ \E ok \in BOOLEAN : AwCatchEnsureDir(ok)
    \/ \E ok \in BOOLEAN : AwCatchOpen(ok)
    \/ \E ok \in BOOLEAN : AwCatchWrite(ok)
    \/ AwDone
    \/ \E path \in AwTargets : AwRead(path)

SpecAW == InitAW /\ [][NextAW]_vars

\* C9: atomicWrite changes the target only by renaming a temp file over it;
\* when the temp-file write or the rename fails the error reaches the
\* caller, and the target is never written directly.
C9_NoDirectWrite ==
    /\ ~aw.direct
    /\ aw.pc = "returned" => ~aw.tempFailed

\* C10: a reader concurrent with atomicWrite sees the target with its
\* complete old or complete new content (or no file yet), never truncated.
C10_ReaderSeesWholeFile == aw.seen.kind # "truncated"

----------------------------------------------------------------------------
(* Backups, lookup, delete, discovery *)

\* a second successful updateRule in a row on the only rule of the index
SecondUpdateInARow ==
    /\ Len(index) = 1
    /\ last = Result("update", 200)
    /\ \E id \in Ids, input \in Payloads : UpdateRule(id, input, "none", "none")
    /\ last' = Result("update", 200)

\* C11: after N successive updateRule calls on one rule with maxBackups = k,
\* 1 <= k < N (here N = 2, k = 1), exactly k backup files of the rule's name
\* remain, and they are the most recent ones.  The rule's name is read in
\* the most generous way: the name it has after the first or after the
\* second of the two updates.
C11_BackupsPrunedToBound ==
    [][(MaxBackups = 1 /\ SecondUpdateInARow) =>
          \E n \in {index[1].name, index'[1].name} :
              \* the backup files pruneBackups counts for the name, by
              \* position in the backups directory (oldest first)
              LET BackupsOf == {i \in DOMAIN backups' : IsCandidate(backups'[i], n)}
              IN  /\ Cardinality(BackupsOf) = MaxBackups
                  /\ Len(backups') \in BackupsOf]_vars

\* the rules the file yields today, as <<name, fileName, backendUrl>>
YieldOfFile(f) ==
    LET cs == Extract(discovery, files[f], f)
    IN  {<<cs[k].name, cs[k].fileName, cs[k].backendUrl>> : k \in DOMAIN cs}

\* the rules every file of the watched directory yields today
YieldOfDirectory == UNION {YieldOfFile(f) : f \in {g \in DOMAIN files : IsYamlFile(g)}}

\* C13: when a syncFromDisk pass completes the index holds exactly the rules
\* discovery produced from the watched directory: every entry comes from a
\* file that yields it, every rule a file yields has its entry, and an old
\* entry whose file is gone or no longer parses is not in the new index.
C13_IndexIsDiscoveredSet ==
    [][SyncPass =>
          /\ {<<index'[i].name, index'[i].fileName, index'[i].backendUrl>> :
                 i \in DOMAIN index'} = YieldOfDirectory
          /\ Len(index') = Cardinality(YieldOfDirectory)
          /\ \A i \in DOMAIN index :
                 (index[i].fileName \notin DOMAIN files
                     \/ YieldOfFile(index[i].fileName) = {})
                 => \A j \in DOMAIN index' : index'[j].fileName # index[i].fileName]_vars

\* a pass has emptied an index that once held a rule: the only files left
\* do not parse
C13_Witness ==
    /\ last = Result("sync", 200)
    /\ steps >= 2
    /\ nextId > 1
    /\ index = <<>>
    /\ \E f \in DOMAIN files : ~Parses(files[f])

HintedPayloads ==
    {Payload("app2", <<"http://a:80">>, "app"), Payload("app", <<"http://b:80">>, "app2")}

\* C16: updateRule picks the entry whose id equals the given id; otherwise,
\* if the payload carries previousName, the entry whose name or fileName
\* stem equals previousName; otherwise the entry whose name or stem equals
\* the payload's name; if none matches it answers 404.  Here: no entry has
\* the id, one matches previousName, so the call must not answer 404 and
\* must modify that entry.
C16_LookupByPreviousName ==
    [][\A id \in Ids, input \in HintedPayloads :
          (/\ UpdateRule(id, input, "none", "none")
           /\ FindIndexById(index, id) = 0
           /\ FindIndexByName(index, input.previousName) # 0
           /\ ~NameExists(index, input.name))
          => /\ last' = Result("update", 200)
             /\ index'[FindIndexByName(index, input.previousName)].name = input.name]_vars

\* no two entries of the index have the same name or the same file
NamesUnique(rules) ==
    \A a \in DOMAIN rules, b \in DOMAIN rules :
        a # b => rules[a].name # rules[b].name /\ rules[a].fileName # rules[b].fileName

\* C17: deleteRule(id) for an id of the index removes exactly that entry,
\* leaves the other entries and their order as they were, and removes the
\* rule's YAML file from the watched directory; for an id the index does not
\* have it answers 404 and changes nothing.  (Stated for an index whose
\* names and files are unique.)
C17_DeleteRemovesEntryAndFile ==
    [][\A id \in Ids :
          (NamesUnique(index) /\ DeleteRule(id, "none"))
          => IF FindIndexById(index, id) # 0
             THEN /\ last' = Result("delete", 204)
                  /\ index' = Splice(index, FindIndexById(index, id))
                  /\ index[FindIndexById(index, id)].fileName \notin DOMAIN files'
             ELSE /\ last' = Result("delete", 404)
                  /\ index' = index
                  /\ files' = files
                  /\ backups' = backups]_vars

----------------------------------------------------------------------------
(* Discovery over directories that hold malformed files *)

\* YAML that parses but has no http.routers / http.services
NoHttpDoc == YamlDoc(<<>>, <<>>)

\* a router without any service section
NoServicesDoc == YamlDoc(<<Router("app", "app")>>, <<>>)

\* a router without a rule expression
NoRuleDoc ==
    YamlDoc(<<[name |-> "app", service |-> "app", rule |-> ""]>>,
            <<Service("app", "http://a:80")>>)

MalformedDocs == {Garbage, Truncated, NoHttpDoc, NoServicesDoc, NoRuleDoc}

DiscoveryDocs ==
    MalformedDocs \cup
        {SingleRouterDoc("app", "http://a:80"), SingleRouterDoc("app2", "http://b:80"),
         TwoRouterDoc}

\* the file does not parse as YAML, or lacks the router/service structure
Malformed(doc) ==
    \/ ~Parses(doc)
    \/ doc.routers = <<>>
    \/ doc.services = <<>>
    \/ \A i \in DOMAIN doc.routers : doc.routers[i].rule = ""

InitDiscovery ==
    /\ files \in {<<>>} \cup {Dir1(f, doc) : f \in WatchedNames, doc \in DiscoveryDocs}
    /\ discovery \in {"extractRuleFromYaml", "extractRulesFromYaml"}
    /\ index = DiscoverRules(discovery, files, IdMap(<<>>), 1).rules
    /\ nextId = DiscoverRules(discovery, files, IdMap(<<>>), 1).next
    /\ backups = <<>>
    /\ last = Result("sync", 200)
    /\ steps = 0
    /\ aw = AwIdle
    /\ dz = DzIdle
    /\ procs = ProcsIdle
    /\ rt = RtIdle
    /\ srv = SrvIdle

NextDiscovery ==
    \/ SyncFromDisk("none")
    \/ \E f \in WatchedNames, doc \in DiscoveryDocs : ExternalWrite(f, doc)
    \/ \E f \in WatchedNames : ExternalRemove(f)

SpecDiscovery == InitDiscovery /\ [][NextDiscovery]_vars

\* C14: a file that does not parse as YAML or lacks the router/service
\* structure contributes no rule and does not abort the scan: the pass
\* raises no error and finds what it finds without that file.
C14_MalformedFileSkipped ==
    [][SyncFromDisk("none") =>
          /\ last' = Result("sync", 200)
          /\ \A f \in DOMAIN files :
                 Malformed(files[f]) =>
                     /\ \A j \in DOMAIN index' : index'[j].fileName # f
                     /\ index' = DiscoverRules(discovery, RemoveFileSafe(files, f),
                                               IdMap(index), nextId).rules]_vars

\* a pass has run over a malformed file and a well-formed one, and the
\* well-formed one has its rule
C14_Witness ==
    /\ last = Result("sync", 200)
    /\ steps >= 1
    /\ \E f \in DOMAIN files : Malformed(files[f])
    /\ \E f \in DOMAIN files : \E j \in DOMAIN index : index[j].fileName = f

----------------------------------------------------------------------------
(* The file watcher's debounce (startFileWatcher).  Time is in             *)
(* milliseconds; the event loop is not blocked, so a timer runs when it is *)
(* due, before a watcher event of the same instant.  A burst is a maximal  *)
(* run of events each less than DebounceMs after the one before it.        *)

\* setTimeout(..., 500)
DebounceMs == 500

\* the clock is advanced at most MaxTicks times, the watcher sees at most
\* MaxEvents events
MaxTicks == 6

MaxEvents == 4

\* by how much the clock advances between two things happening
Advances == {100, 400}

EventKinds == {"add", "change", "unlink"}

\* a debounce that leaves the pending timer in place
NoClearTimeout(timers, handle) == timers

\* clearTimeout(timer)
ClearTimeout(timers, handle) == {t \in timers : t.h # handle}

\* timer = setTimeout(() => syncFromDisk(), 500)
SetTimeout(timers, handle, now) == timers \cup {[h |-> handle, due |-> now + DebounceMs]}

TimerDue(t) == t.due <= dz.now

\* time passes; no timer is overdue afterwards
DzAdvance(d) ==
    /\ dz.ticks < MaxTicks
    /\ \A t \in dz.timers : t.due >= dz.now + d
    /\ dz' = [dz EXCEPT !.now = dz.now + d, !.ticks = dz.ticks + 1]
    /\ UNCHANGED <<files, index, backups, nextId, discovery, last, steps, aw, procs, rt, srv>>

\* watcher.on('add' | 'change' | 'unlink', debouncedSync)
DebouncedSync(kind) ==
    /\ dz.h < MaxEvents
    /\ \A t \in dz.timers : ~TimerDue(t)
    /\ LET sameBurst == dz.lastEvent >= 0 /\ dz.now - dz.lastEvent < DebounceMs
       IN  dz' = [dz EXCEPT
                    !.timers = SetTimeout(ClearTimeout(dz.timers, dz.timer), dz.h + 1, dz.now),
                    !.timer = dz.h + 1,
                    !.h = dz.h + 1,
                    !.lastEvent = dz.now,
                    !.kind = kind,
                    !.events = IF sameBurst THEN dz.events + 1 ELSE 1,
                    !.syncs = IF sameBurst THEN dz.syncs ELSE 0,
                    !.early = IF sameBurst THEN dz.early ELSE FALSE]
    /\ UNCHANGED <<files, index, backups, nextId, discovery, last, steps, aw, procs, rt, srv>>

\* the timer's callback runs: syncFromDisk() is called
DzFire ==
    /\ \E t \in dz.timers :
          /\ TimerDue(t)
          /\ dz' = [dz EXCEPT
                      !.timers = dz.timers \ {t},
                      !.syncs = dz.syncs + 1,
                      !.early = dz.early \/ dz.now < dz.lastEvent + DebounceMs]
    /\ UNCHANGED <<files, index, backups, nextId, discovery, last, steps, aw, procs, rt, srv>>

InitDebounce ==
    /\ files = <<>>
    /\ discovery = "extractRuleFromYaml"
    /\ index = <<>>
    /\ nextId = 1
    /\ backups = <<>>
    /\ last = Result("sync", 200)
    /\ steps = 0
    /\ aw = AwIdle
    /\ dz = DzIdle
    /\ procs = ProcsIdle
    /\ rt = RtIdle
    /\ srv = SrvIdle

NextDebounce ==
    \/ \E d \in Advances : DzAdvance(d)
    \/ \E kind \in EventKinds : DebouncedSync(kind)
    \/ DzFire

SpecDebounce == InitDebounce /\ [][NextDebounce]_vars

\* C12: a burst of watcher events, each less than one debounce interval
\* after the previous one, triggers exactly one syncFromDisk call, started
\* only after the last event of the burst: never more than one call per
\* burst, none before the interval after the last event has passed, and as
\* long as the burst's call has not run exactly one timer is pending.
C12_DebounceCollapse ==
    /\ dz.syncs <= 1
    /\ ~dz.early
    /\ (dz.events >= 1 /\ dz.syncs = 0) => Cardinality(dz.timers) = 1
    /\ dz.syncs = 1 => dz.timers = {}

\* a burst of three events or more has ended and its one call has run
C12_Witness == dz.events >= 3 /\ dz.syncs = 1

----------------------------------------------------------------------------
(* createRule and syncFromDisk one await at a time.  Between two awaits of *)
(* one request the event loop runs steps of the others.                    *)

\* syncFromDisk runs at most MaxPasses times
MaxPasses == 2

\* the name each createRule call is given
NameOf(p) == IF p \in {"c1", "c3"} THEN "app" ELSE "app2"

RaceRule(p) == [name |-> NameOf(p), backendUrl |-> <<"http://a:80">>, previousName |-> ""]

\* createRule up to `const meta = await loadMetadata(...)`: the id is drawn,
\* the rule validated, the index read
CrLoad(p) ==
    /\ procs[p].pc = "idle"
    /\ nextId <= MaxIds
    /\ ValidateRule(RaceRule(p))
    /\ procs' = [procs EXCEPT ![p].pc = "check", ![p].id = nextId, ![p].meta = index]
    /\ nextId' = nextId + 1
    /\ UNCHANGED <<files, index, backups, discovery, last, steps, aw, dz, rt, srv>>

\* the duplicate check, then `await atomicWrite(filePath, yamlContent)`
CrWrite(p) ==
    /\ procs[p].pc = "check"
    /\ IF NameExists(procs[p].meta, NameOf(p))
       THEN /\ procs' = [procs EXCEPT ![p].pc = "done", ![p].status = 409]
            /\ UNCHANGED files
       ELSE /\ files' = WriteRuleFile(files, BuildYamlPath(NameOf(p)),
                                      GenerateTraefikYaml(RaceRule(p)), "none")
            /\ procs' = [procs EXCEPT ![p].pc = "save"]
    /\ UNCHANGED <<index, backups, nextId, discovery, last, steps, aw, dz, rt, srv>>

\* the entry createRule pushes
StoredRule(p) ==
    [id |-> procs[p].id, name |-> NameOf(p), fileName |-> BuildYamlPath(NameOf(p)),
     backendUrl |-> <<"http://a:80">>]

\* meta.rules.push(storedRule); await saveMetadata(...); return storedRule
CrSave(p) ==
    /\ procs[p].pc = "save"
    /\ index' = WriteIndex(index, Append(procs[p].meta, StoredRule(p)), "none")
    /\ procs' = [procs EXCEPT ![p].pc = "done", ![p].status = 201]
    /\ UNCHANGED <<files, backups, nextId, discovery, last, steps, aw, dz, rt, srv>>

\* syncFromDisk: const existing = await loadMetadata(...)
SyLoad ==
    /\ procs["s"].pc \in {"idle", "done"}
    /\ procs["s"].passes < MaxPasses
    /\ procs' = [procs EXCEPT !["s"].pc = "discover", !["s"].meta = index,
                              !["s"].passes = procs["s"].passes + 1]
    /\ UNCHANGED <<files, index, backups, nextId, discovery, last, steps, aw, dz, rt, srv>>

\* syncFromDisk: const rules = await discoverRules(...)
SyDiscover ==
    /\ procs["s"].pc = "discover"
    /\ LET d == DiscoverRules(discovery, files, IdMap(procs["s"].meta), nextId)
       IN  /\ d.next <= MaxIds + 1
           /\ procs' = [procs EXCEPT !["s"].pc = "save", !["s"].out = d.rules]
           /\ nextId' = d.next
    /\ UNCHANGED <<files, index, backups, discovery, last, steps, aw, dz, rt, srv>>

\* syncFromDisk: await saveMetadata(config.metadataPath, { rules })
SySave ==
    /\ procs["s"].pc = "save"
    /\ index' = WriteIndex(index, procs["s"].out, "none")
    /\ procs' = [procs EXCEPT !["s"].pc = "done", !["s"].status = 200]
    /\ UNCHANGED <<files, backups, nextId, discovery, last, steps, aw, dz, rt, srv>>

InitRace ==
    /\ files = <<>>
    /\ discovery \in {"extractRuleFromYaml", "extractRulesFromYaml"}
    /\ index = <<>>
    /\ nextId = 1
    /\ backups = <<>>
    /\ last = Result("sync", 200)
    /\ steps = 0
    /\ aw = AwIdle
    /\ dz = DzIdle
    /\ procs = ProcsIdle
    /\ rt = RtIdle
    /\ srv = SrvIdle

NextRace ==
    \/ \E p \in {"c1", "c2"} : CrLoad(p)
    \/ \E p \in {"c1", "c2"} : CrWrite(p)
    \/ \E p \in {"c1", "c2"} : CrSave(p)
    \/ SyLoad
    \/ SyDiscover
    \/ SySave

SpecRace == InitRace /\ [][NextRace]_vars

\* no request is between two of its awaits
Quiet == \A p \in ProcNames : procs[p].pc \in {"idle", "done"}

\* C18: the id createRule returned for a rule is the rule's id in the index
\* after every later syncFromDisk pass, also a pass that ran between
\* createRule's write of the YAML file and its save of the index.
C18_CreatedIdSurvivesSync ==
    \A p \in {"c1", "c2"} :
        (/\ procs[p].status = 201
         /\ procs["s"].pc = "done")
        => \A i \in DOMAIN index :
               index[i].name = NameOf(p) => index[i].id = procs[p].id

\* both createRule calls have returned success and no syncFromDisk ran
BothCreated ==
    /\ procs["c1"].status = 201
    /\ procs["c2"].status = 201
    /\ procs["s"].passes = 0

\* each call loaded the index before the other saved it
Interleaved == procs["c1"].meta = <<>> /\ procs["c2"].meta = <<>>

\* C19: two createRule calls with different names whose load, write and
\* save steps interleave both return success while the index ends up with
\* only one of the two rules (the later save replaces the earlier one),
\* although both YAML files exist; calls that do not interleave leave both
\* rules in the index.
C19_LostUpdateOnInterleavedCreate ==
    BothCreated =>
        /\ BuildYamlPath(NameOf("c1")) \in DOMAIN files
        /\ BuildYamlPath(NameOf("c2")) \in DOMAIN files
        /\ IF Interleaved
           THEN index \in {<<StoredRule("c1")>>, <<StoredRule("c2")>>}
           ELSE {index[i] : i \in DOMAIN index} = {StoredRule("c1"), StoredRule("c2")}

\* both calls returned 201, both files exist, one rule is in the index
C19_Witness ==
    /\ BothCreated
    /\ Interleaved
    /\ Len(index) = 1
    /\ {"app.yaml", "app2.yaml"} \subseteq DOMAIN files

----------------------------------------------------------------------------
(* generateTraefikYaml and the extraction of discovery, field by field.    *)
(* Strings are strings; the character @ stands for the backtick.  A        *)
(* property that is not set (undefined) is "" or <<>>.                     *)

Bt == "@"

\* the smallest i with pat at position i of s, 0 when pat is not in s
IndexOf(s, pat) ==
    LET hits == {i \in 1..(Len(s) - Len(pat) + 1) : SubSeq(s, i, i + Len(pat) - 1) = pat}
    IN  IF hits = {} THEN 0 ELSE CHOOSE i \in hits : \A j \in hits : i <= j

\* `Host(\`${rule.hostname}\`)`
HostExpr(hostname) == "Host(" \o Bt \o hostname \o Bt \o ")"

\* buildLoadBalancer
BuildLoadBalancer(rule) ==
    [servers |-> rule.backendUrl,
     sticky |-> IF rule.stickySession THEN "sticky" ELSE "",
     healthCheckPath |-> rule.healthCheckPath]

\* generateTraefikYaml, then yaml.dump and yaml.load: the config object with
\* one router and one service, both named rule.name
GenerateConfig(rule) ==
    [routerName |-> rule.name,
     router |-> [rule |-> HostExpr(rule.hostname),
                 service |-> rule.name,
                 entryPoints |-> rule.entryPoints,
                 middlewares |-> rule.middlewares,
                 hasTls |-> rule.tls,
                 certResolver |-> IF rule.tls THEN rule.certResolver ELSE ""],
     serviceName |-> rule.name,
     loadBalancer |-> BuildLoadBalancer(rule)]

\* router.rule.match(/Host\\(`([^`]+)`\\)/) of server/discovery.js: in the
\* regex literal \\ is a backslash and the parentheses are groups, so it
\* looks for Host, a backslash, a backtick, characters other than backticks,
\* a backtick and a backslash; hostMatch[1] is the outer group
MatchEscapedHost(ruleStr) ==
    LET i == IndexOf(ruleStr, "Host\\" \o Bt)
        rest == SubSeq(ruleStr, i + 6, Len(ruleStr))
        j == IndexOf(rest, Bt)
    IN  IF i = 0 \/ j <= 1 THEN ""
        ELSE IF SubSeq(rest, j + 1, j + 1) # "\\" THEN ""
        ELSE Bt \o SubSeq(rest, 1, j + 1)

\* raw.replace(/^['"`]+|['"`]+$/g, '')
RECURSIVE StripQuotes(_)
StripQuotes(raw) ==
    IF raw = "" THEN ""
    ELSE IF SubSeq(raw, 1, 1) \in {"'", "\"", Bt} THEN StripQuotes(SubSeq(raw, 2, Len(raw)))
    ELSE IF SubSeq(raw, Len(raw), Len(raw)) \in {"'", "\"", Bt}
         THEN StripQuotes(SubSeq(raw, 1, Len(raw) - 1))
    ELSE raw

\* extractHost of the other revision: /Host\(([^)]+)\)/, quotes stripped
ExtractHost(ruleStr) ==
    LET i == IndexOf(ruleStr, "Host(")
        rest == SubSeq(ruleStr, i + 5, Len(ruleStr))
        j == IndexOf(rest, ")")
    IN  IF i = 0 \/ j <= 1 THEN "" ELSE StripQuotes(SubSeq(rest, 1, j - 1))

\* the fields extractRuleFromYaml / extractRulesFromYaml read from the file
ExtractFields(rev, config) ==
    [name |-> config.routerName,
     hostname |-> IF rev = "extractRuleFromYaml" THEN MatchEscapedHost(config.router.rule)
                  ELSE ExtractHost(config.router.rule),
     backendUrl |-> config.loadBalancer.servers,
     entryPoints |-> config.router.entryPoints,
     tls |-> config.router.hasTls,
     certResolver |-> config.router.certResolver,
     middlewares |-> config.router.middlewares,
     stickySession |-> config.loadBalancer.sticky # "",
     healthCheckPath |-> config.loadBalancer.healthCheckPath]

\* the rules put through the round trip
RoundTripRules ==
    [name : {"api"},
     hostname : {"api.example.com", "a.b"},
     backendUrl : {<<"http://a:80">>, <<"http://a:80", "http://b:80">>},
     entryPoints : {<<"web">>, <<"web", "websecure">>},
     tls : BOOLEAN,
     certResolver : {"", "le"},
     middlewares : {<<>>, <<"auth", "gzip">>},
     stickySession : BOOLEAN,
     healthCheckPath : {"", "/health"}]

\* a rule is handed to generateTraefikYaml
RtGenerate ==
    /\ rt.pc = "rule"
    /\ rt' = [rt EXCEPT !.pc = "file", !.config = GenerateConfig(rt.rule)]
    /\ UNCHANGED <<files, index, backups, nextId, discovery, last, steps, aw, dz, procs, srv>>

\* discovery reads the file back
RtDiscover ==
    /\ rt.pc = "file"
    /\ rt' = [rt EXCEPT !.pc = "found", !.found = ExtractFields(discovery, rt.config)]
    /\ UNCHANGED <<files, index, backups, nextId, discovery, last, steps, aw, dz, procs, srv>>

InitRoundTrip ==
    /\ files = <<>>
    /\ discovery \in {"extractRuleFromYaml", "extractRulesFromYaml"}
    /\ index = <<>>
    /\ nextId = 1
    /\ backups = <<>>
    /\ last = Result("sync", 200)
    /\ steps = 0
    /\ aw = AwIdle
    /\ dz = DzIdle
    /\ procs = ProcsIdle
    /\ rt \in [pc : {"rule"}, rule : RoundTripRules, config : {""}, found : {""}]
    /\ srv = SrvIdle

NextRoundTrip ==
    \/ RtGenerate
    \/ RtDiscover

SpecRoundTrip == InitRoundTrip /\ [][NextRoundTrip]_vars

\* the rule of the claim: two backend URLs, two entry points, TLS with a
\* cert resolver, two middlewares, sticky session, a health-check path
FullRule(rule) ==
    /\ Len(rule.backendUrl) = 2
    /\ Len(rule.entryPoints) = 2
    /\ rule.tls
    /\ rule.certResolver # ""
    /\ Len(rule.middlewares) = 2
    /\ rule.stickySession
    /\ rule.healthCheckPath # ""

\* C20: for such a rule, generating its YAML and running discovery on the
\* file recovers name, hostname, backendUrl, entryPoints, tls, certResolver,
\* middlewares, stickySession and healthCheckPath with equal values.
C20_RoundTrip ==
    (rt.pc = "found" /\ FullRule(rt.rule)) => rt.found = rt.rule

----------------------------------------------------------------------------
(* updateRule and deleteRule when one of their side operations fails: the  *)
(* backup copy, the pruning of the backups, the removal of the old file.   *)
(* The primary write and the save of the index succeed.                    *)

NextSide ==
    \/ \E input \in Payloads : CreateRule(input, "none", "none")
    \/ \E id \in Ids, input \in Payloads, side \in SideFaults :
          UpdateRuleWith(id, input, "none", "none", side)
    \/ \E id \in Ids, side \in SideFaults : DeleteRuleWith(id, "none", side)

SpecSide == Init /\ [][NextSide]_vars

\* updateRule(id, input) passes validation, lookup, sanitizing and the
\* duplicate check: what is left are the writes
UpdateAccepted(id, input) ==
    LET rule == StripAdditional(input)
        i == FindTarget(index, id, rule)
    IN  /\ ValidateRule(rule)
        /\ i # 0
        /\ SanitizeName(rule.name) # ""
        /\ ~NameOwnedByOther(index, SanitizeName(rule.name), index[i].id)

\* C21: a failure of the backup copy, of the pruning of the backups or of
\* the removal of the old file does not fail updateRule or deleteRule: the
\* update answers 200 with the rule's file written and the index entry
\* replaced, the delete answers 204 with the file removed and the entry gone.
C21_SideFailuresTolerated ==
    [][\A side \in {"copy", "prune"} :
          /\ \A id \in Ids, input \in Payloads :
                (UpdateAccepted(id, input) /\ UpdateRuleWith(id, input, "none", "none", side))
                => LET rule == StripAdditional(input)
                       i == FindTarget(index, id, rule)
                   IN  /\ last' = Result("update", 200)
                       /\ ReadFile(files', BuildYamlPath(rule.name)) = GenerateTraefikYaml(rule)
                       /\ Len(index') = Len(index)
                       /\ index'[i].name = rule.name
                       /\ index'[i].backendUrl = rule.backendUrl
          /\ \A id \in Ids :
                (FindIndexById(index, id) # 0 /\ DeleteRuleWith(id, "none", side))
                => /\ last' = Result("delete", 204)
                   /\ index' = Splice(index, FindIndexById(index, id))
                   /\ BuildYamlPath(index[FindIndexById(index, id)].name) \notin DOMAIN files']_vars

----------------------------------------------------------------------------
(* The file watcher with reconciliation passes that can fail.  dz.after    *)
(* follows the case of interest: "failed" once a pass has failed,          *)
(* "scheduled" once a later event has set the timer again, "ran" once that *)
(* timer's pass has run.                                                   *)

\* the index.json write of a pass succeeds, or fails and leaves the file
WatchFaults == {"none", "open"}

\* a rejected syncFromDisk() promise nobody handles ends the process
UnhandledRejection(alive, ok) == alive /\ ok

\* syncFromDisk().catch(err => log.error('Resync failed', ...)): the
\* rejection is handled, the process goes on
CatchRejection(alive, ok) == alive

\* watcher.on('add' | 'change' | 'unlink', debouncedSync), as long as the
\* process runs
WatcherEvent(kind) ==
    /\ dz.alive
    /\ dz.h < MaxEvents
    /\ \A t \in dz.timers : ~TimerDue(t)
    /\ dz' = [dz EXCEPT
                !.timers = SetTimeout(ClearTimeout(dz.timers, dz.timer), dz.h + 1, dz.now),
                !.timer = dz.h + 1,
                !.h = dz.h + 1,
                !.lastEvent = dz.now,
                !.kind = kind,
                !.events = dz.events + 1,
                !.after = IF dz.after = "failed" THEN "scheduled" ELSE dz.after]
    /\ UNCHANGED <<files, index, backups, nextId, discovery, last, steps, aw, procs, rt, srv>>

\* the timer's callback: syncFromDisk() runs to its end or rejects
DzFireSync(meta) ==
    /\ dz.alive
    /\ \E t \in dz.timers :
          /\ TimerDue(t)
          /\ LET d == DiscoverRules(discovery, files, IdMap(index), nextId)
                 ok == AtomicWrite(meta).ok
             IN  /\ d.next <= MaxIds + 1
                 /\ index' = WriteIndex(index, d.rules, meta)
                 /\ nextId' = d.next
                 /\ last' = Result("sync", IF ok THEN 200 ELSE 500)
                 /\ dz' = [dz EXCEPT
                             !.timers = dz.timers \ {t},
                             !.syncs = dz.syncs + 1,
                             !.alive = CatchRejection(dz.alive, ok),
                             !.after = IF ~ok /\ dz.after = "none" THEN "failed"
                                       ELSE IF dz.after = "scheduled" THEN "ran"
                                       ELSE dz.after]
    /\ UNCHANGED <<files, backups, discovery, steps, aw, procs, rt, srv>>

NextWatch ==
    \/ \E d \in Advances : DzAdvance(d)
    \/ \E kind \in EventKinds : WatcherEvent(kind)
    \/ \E meta \in WatchFaults : DzFireSync(meta)

SpecWatch == Init /\ [][NextWatch]_vars

\* C22: a failed watcher-triggered syncFromDisk is caught and the watcher
\* keeps running: the process stays alive, an event after the failed pass
\* sets the timer again, and that timer's pass runs.
C22_WatcherSurvivesFailedSync ==
    /\ dz.alive
    /\ dz.after = "scheduled" => \E t \in dz.timers : t.h = dz.timer
    /\ dz.after = "ran" => dz.syncs >= 2

\* a pass failed, a later event scheduled another pass, and it ran and
\* succeeded
C22_Witness == dz.after = "ran" /\ last = Result("sync", 200)

----------------------------------------------------------------------------
(* createRule and updateRule: rejected payloads, successful writes *)

\* the payload passes validateRule and its name matches [A-Za-z0-9_-]+
Acceptable(input) ==
    ValidateRule(StripAdditional(input)) /\ MatchesNamePattern(input.name)

\* C23: createRule and updateRule answer 400 and leave the files, the index
\* and the backups as they were when the payload fails validation or its
\* name does not match [A-Za-z0-9_-]+.
C23_RejectedPayloadChangesNothing ==
    [][\A input \in Payloads :
          (/\ last'.op \in {"create", "update"}
           /\ ~Acceptable(input)
           /\ \/ \E ft \in Faults : CreateRule(input, ft[1], ft[2])
              \/ \E id \in Ids, ft \in Faults : UpdateRule(id, input, ft[1], ft[2]))
          => /\ last'.status = 400
             /\ files' = files
             /\ index' = index
             /\ backups' = backups]_vars

\* an update with a rejected payload was answered while the index held a
\* rule
C23_Witness ==
    /\ last = Result("update", 400)
    /\ index # <<>>
    /\ steps >= 2

\* C24: a successful createRule for name n writes the generated YAML to
\* n.yaml and appends exactly one entry at the end of the index, with an id
\* no earlier entry uses, name n and fileName n.yaml; the earlier entries
\* are unchanged.
C24_CreateAppendsOneEntry ==
    [][\A input \in Payloads :
          (/\ last' = Result("create", 201)
           /\ \E ft \in Faults : CreateRule(input, ft[1], ft[2]))
          => /\ ReadFile(files', input.name \o ".yaml")
                   = GenerateTraefikYaml(StripAdditional(input))
             /\ Len(index') = Len(index) + 1
             /\ SubSeq(index', 1, Len(index)) = index
             /\ index'[Len(index')].name = input.name
             /\ index'[Len(index')].fileName = input.name \o ".yaml"
             /\ index'[Len(index')].backendUrl = input.backendUrl
             /\ \A j \in 1..Len(index) : index[j].id # index'[Len(index')].id]_vars

\* a rule was created while the index already held another one
C24_Witness ==
    /\ last = Result("create", 201)
    /\ Len(index) >= 2
    /\ index[Len(index)].fileName \in DOMAIN files

----------------------------------------------------------------------------
(* Reading a rule's YAML *)

\* GET /api/rules/:id/yaml: the response for the index and the watched
\* directory as they are
GetRuleYaml(rules, fs, id) ==
    LET i == FindIndexById(rules, id)
        yamlPath == rules[i].name \o ".yaml"
    IN  IF i = 0 THEN [status |-> 404, body |-> Absent]
        ELSE IF yamlPath \notin DOMAIN fs THEN [status |-> 500, body |-> Absent]
        ELSE [status |-> 200, body |-> fs[yamlPath]]

\* C25: for every rule of the index, discovered ones included,
\* GET /api/rules/:id/yaml answers the current content of the file named by
\* the rule's fileName.  (Stated for an index whose names and files are
\* unique, an id no other entry has, and a backing file that exists.)
C25_YamlOfBackingFile ==
    \A j \in DOMAIN index :
        (/\ NamesUnique(index)
         /\ \A k \in DOMAIN index : index[k].id = index[j].id => k = j
         /\ index[j].fileName \in DOMAIN files)
        => /\ GetRuleYaml(index, files, index[j].id).status = 200
           /\ GetRuleYaml(index, files, index[j].id).body = files[index[j].fileName]

----------------------------------------------------------------------------
(* The server from its start: createApp, startFileWatcher, app.listen, and *)
(* the routes that read or change its configuration.  files is the content *)
(* of the directory config.dynamicPath names.                              *)

\* directories a request can name; "" stands for a body without a path
RequestPaths == {"", StartPath, "/srv/other"}

Response(route, status) == [route |-> route, status |-> status]

\* createApp: initStorage, ensureDir, the first syncFromDisk
CreateAppSync ==
    /\ srv.phase = "starting"
    /\ LET d == DiscoverRules(discovery, files, IdMap(index), nextId)
       IN  /\ d.next <= MaxIds + 1
           /\ index' = d.rules
           /\ nextId' = d.next
    /\ last' = Result("sync", 200)
    /\ srv' = [srv EXCEPT !.phase = "created"]
    /\ UNCHANGED <<files, backups, discovery, steps, aw, dz, procs, rt>>

\* start(): startFileWatcher() on config.dynamicPath
StartFileWatcher ==
    /\ srv.phase = "created"
    /\ srv' = [srv EXCEPT !.phase = "watching", !.watched = srv.dynamicPath]
    /\ UNCHANGED <<files, index, backups, nextId, discovery, last, steps, aw, dz, procs, rt>>

\* start(): app.listen(config.port, config.host)
Listen ==
    /\ srv.phase = "watching"
    /\ srv' = [srv EXCEPT !.phase = "listening"]
    /\ UNCHANGED <<files, index, backups, nextId, discovery, last, steps, aw, dz, procs, rt>>

\* GET /health: fs.access(config.dynamicPath) succeeds
GetHealth ==
    /\ srv.phase = "listening"
    /\ srv' = [srv EXCEPT !.resp = Response("/health", 200)]
    /\ UNCHANGED <<files, index, backups, nextId, discovery, last, steps, aw, dz, procs, rt>>

\* GET /ready: the app has no such route, Express answers 404
GetReady ==
    /\ srv.phase = "listening"
    /\ srv' = [srv EXCEPT !.resp = Response("/ready", 404)]
    /\ UNCHANGED <<files, index, backups, nextId, discovery, last, steps, aw, dz, procs, rt>>

\* POST /api/config/path with body { path: newPath }: updateDynamicPath;
\* dir is what the directory named holds
PostConfigPath(newPath, dir) ==
    /\ srv.phase = "listening"
    /\ IF newPath = ""
       THEN /\ srv' = [srv EXCEPT !.resp = Response("/api/config/path", 400)]
            /\ UNCHANGED <<files, index, backups, nextId, discovery, last, steps, aw, dz, procs, rt>>
       ELSE /\ newPath = srv.dynamicPath => dir = files
            /\ LET d == DiscoverRules(discovery, dir, IdMap(index), nextId)
               IN  /\ d.next <= MaxIds + 1
                   /\ index' = d.rules
                   /\ nextId' = d.next
            /\ files' = dir
            /\ last' = Result("sync", 200)
            /\ srv' = [srv EXCEPT !.dynamicPath = newPath, !.watched = newPath,
                                  !.resp = Response("/api/config/path", 200)]
            /\ UNCHANGED <<backups, discovery, steps, aw, dz, procs, rt>>

InitServer ==
    /\ files \in InitialDirs
    /\ discovery \in {"extractRuleFromYaml", "extractRulesFromYaml"}
    /\ index = <<>>
    /\ nextId = 1
    /\ backups = <<>>
    /\ last = Result("", 0)
    /\ steps = 0
    /\ aw = AwIdle
    /\ dz = DzIdle
    /\ procs = ProcsIdle
    /\ rt = RtIdle
    /\ srv = [phase |-> "starting", dynamicPath |-> StartPath, watched |-> "",
              resp |-> NoResponse]

NextServer ==
    \/ CreateAppSync
    \/ StartFileWatcher
    \/ Listen
    \/ GetHealth
    \/ GetReady
    \/ \E newPath \in RequestPaths, dir \in InitialDirs : PostConfigPath(newPath, dir)

SpecServer == InitServer /\ [][NextServer]_vars

\* C26: once the process has started, no API request changes
\* config.dynamicPath or moves the file watcher to another directory.
C26_DynamicPathFixed ==
    [][srv.phase = "listening"
          => /\ srv'.dynamicPath = srv.dynamicPath
             /\ srv'.watched = srv.watched]_vars

\* C27: GET /ready answers 503 until the first reconciliation pass of the
\* start has completed, and 200 from then on.
C27_ReadyAfterFirstPass ==
    srv.resp.route = "/ready"
    => srv.resp.status = (IF srv.phase = "starting" THEN 503 ELSE 200)

----------------------------------------------------------------------------
(* updateRule: the entry replaced, the conflict *)

\* C28: a successful updateRule replaces exactly one index entry, at the
\* position of the matched entry: the number and the order of the entries
\* and every other entry are unchanged, and the replaced entry keeps the id
\* the index held, also when the id of the request is another one.
C28_UpdateReplacesInPlace ==
    [][\A id \in Ids, input \in Payloads :
          (/\ last' = Result("update", 200)
           /\ \E ft \in Faults : UpdateRule(id, input, ft[1], ft[2]))
          => LET i == FindTarget(index, id, StripAdditional(input))
             IN  /\ Len(index') = Len(index)
                 /\ \A j \in DOMAIN index : j # i => index'[j] = index[j]
                 /\ index'[i].id = index[i].id
                 /\ index'[i].name = input.name
                 /\ index'[i].backendUrl = input.backendUrl]_vars

\* a rule of a two-entry index was updated and carries the new backend
C28_Witness ==
    /\ last = Result("update", 200)
    /\ Len(index) >= 2
    /\ \E j \in DOMAIN index : index[j].backendUrl = <<"http://b:80">>

\* C29: updateRule whose target name is the name of a different index entry
\* answers 409 before anything is written: the index, the YAML files and
\* the backups are unchanged.
C29_UpdateToTakenNameConflicts ==
    [][\A id \in Ids, input \in Payloads :
          (/\ last'.op = "update"
           /\ Acceptable(input)
           /\ FindTarget(index, id, StripAdditional(input)) # 0
           /\ \E j \in DOMAIN index :
                 /\ j # FindTarget(index, id, StripAdditional(input))
                 /\ index[j].name = input.name
           /\ \E ft \in Faults : UpdateRule(id, input, ft[1], ft[2]))
          => /\ last'.status = 409
             /\ index' = index
             /\ files' = files
             /\ backups' = backups]_vars

----------------------------------------------------------------------------
(* The index and the files behind it *)

\* C30: after any sequence of create, update, delete and syncFromDisk every
\* index entry has fileName = name + ".yaml" or name + ".yml", and the
\* watched directory holds the file of that name.
C30_FileNameIsNameWithExtension ==
    (/\ steps >= 1
     /\ last.op \in {"create", "update", "delete", "sync"}
     /\ last.status \in {200, 201, 204})
    => \A j \in DOMAIN index :
          /\ index[j].fileName \in {index[j].name \o ".yaml", index[j].name \o ".yml"}
          /\ index[j].fileName \in DOMAIN files

----------------------------------------------------------------------------
(* Deleted rules, backups taken, discovery per router *)

\* C31: after deleteRule(id) has succeeded the rule's backing file is gone
\* from the watched directory, and a reconciliation pass over the directory
\* as the delete left it does not yield the rule again; also for a rule
\* discovered from a .yml file or from a file whose stem is not its router's
\* name.  (Stated for an index whose names and files are unique.)
C31_DeletedRuleStaysAbsent ==
    [][\A id \in Ids :
          (/\ last' = Result("delete", 204)
           /\ NamesUnique(index)
           /\ FindIndexById(index, id) # 0
           /\ DeleteRule(id, "none"))
          => LET e == index[FindIndexById(index, id)]
                 again == DiscoverRules(discovery, files', IdMap(index'), nextId').rules
             IN  /\ e.fileName \notin DOMAIN files'
                 /\ \A k \in DOMAIN again :
                       ~(again[k].name = e.name /\ again[k].fileName = e.fileName)]_vars

\* C32: whenever updateRule or deleteRule overwrites or removes an existing
\* YAML file and the backup copy does not fail, the backups hold a snapshot
\* of that file's prior content; in particular the content of A.yaml when a
\* rule is renamed from A to B.  (The copy does not fail: its source file
\* exists.)
C32_SnapshotBeforeDestroy ==
    [][(/\ last' \in {Result("update", 200), Result("delete", 204)}
        /\ \/ \E id \in Ids, input \in Payloads :
                 /\ BuildYamlPath(input.name) \in DOMAIN files
                 /\ UpdateRule(id, input, "none", "none")
           \/ \E id \in Ids :
                 /\ FindIndexById(index, id) # 0
                 /\ BuildYamlPath(index[FindIndexById(index, id)].name) \in DOMAIN files
                 /\ DeleteRule(id, "none"))
          => \A f \in DOMAIN files :
                \* f is overwritten or removed by the step
                ReadFile(files', f) # files[f]
                    => \E k \in DOMAIN backups' : backups'[k].content = files[f]]_vars

\* how many of the rules come from router n of file f
EmittedFor(rules, f, n) ==
    Cardinality({k \in DOMAIN rules : rules[k].fileName = f /\ rules[k].name = n})

\* C33: a reconciliation pass emits exactly one rule for every router under
\* http.routers that has a non-empty rule expression and whose referenced
\* service exists under http.services, also in files that define more than
\* one router, and none for the other routers.
C33_OneRulePerQualifyingRouter ==
    [][SyncFromDisk("none") =>
          \A f \in DOMAIN files :
              \A i \in DOMAIN files[f].routers :
                  EmittedFor(index', f, files[f].routers[i].name)
                      = (IF /\ Parses(files[f])
                             /\ files[f].routers[i].rule # ""
                             /\ HasService(files[f], files[f].routers[i].service)
                         THEN 1 ELSE 0)]_vars

----------------------------------------------------------------------------
(* Backups of rules whose names share a prefix: the service holds the      *)
(* rules app and app-v2, both created through the API.                     *)

PruneNames == {"app", "app-v2"}

PrunePayloads == {Payload(n, <<u>>, "") : n \in PruneNames, u \in Urls}

\* the entry createRule stores for the payload
CreatedEntry(id, input) ==
    [id |-> id, name |-> input.name, fileName |-> BuildYamlPath(input.name),
     backendUrl |-> input.backendUrl]

\* the state after createRule for app and for app-v2
InitBackups ==
    /\ \E u \in Urls :
          /\ files = Dir2("app.yaml", GenerateTraefikYaml(Payload("app", <<u>>, "")),
                          "app-v2.yaml", GenerateTraefikYaml(Payload("app-v2", <<u>>, "")))
          /\ index = <<CreatedEntry(1, Payload("app", <<u>>, "")),
                       CreatedEntry(2, Payload("app-v2", <<u>>, ""))>>
    /\ discovery \in {"extractRuleFromYaml", "extractRulesFromYaml"}
    /\ nextId = 3
    /\ backups = <<>>
    /\ last = Result("create", 201)
    /\ steps = 0
    /\ aw = AwIdle
    /\ dz = DzIdle
    /\ procs = ProcsIdle
    /\ rt = RtIdle
    /\ srv = SrvIdle

NextBackups ==
    \/ \E input \in PrunePayloads : CreateRule(input, "none", "none")
    \/ \E id \in Ids, input \in PrunePayloads : UpdateRule(id, input, "none", "none")
    \/ \E id \in Ids : DeleteRule(id, "none")

SpecBackups == InitBackups /\ [][NextBackups]_vars

\* the backups taken under the rule name n, oldest first
BackupsNamed(bk, n) ==
    LET F[i \in 0..Len(bk)] ==
            IF i = 0 THEN <<>>
            ELSE IF bk[i].name = n THEN Append(F[i - 1], bk[i]) ELSE F[i - 1]
    IN  F[Len(bk)]

\* C34: the pruning after an update or delete of rule name A deletes only
\* backups of A: the backups of any other rule name B are unchanged, also
\* when B is A followed by a hyphen and more (A = app, B = app-v2).
C34_PruneTouchesOwnBackupsOnly ==
    [][/\ \A id \in Ids, input \in PrunePayloads :
             (last' = Result("update", 200) /\ UpdateRule(id, input, "none", "none"))
             => \A n \in PruneNames \ {input.name} :
                    BackupsNamed(backups', n) = BackupsNamed(backups, n)
       /\ \A id \in Ids :
             (last' = Result("delete", 204) /\ DeleteRule(id, "none"))
             => \A n \in PruneNames \ {index[FindIndexById(index, id)].name} :
                    BackupsNamed(backups', n) = BackupsNamed(backups, n)]_vars

----------------------------------------------------------------------------
(* createRule over a file the index does not know *)

\* C35: createRule never destroys a file that exists in the watched
\* directory: when {name}.yaml is on disk and no index entry has that name
\* or that file (added externally and not reconciled, or a file that does
\* not parse), createRule fails or the file keeps its content.  (Files cut
\* short by a failed write of the service itself are left aside.)
C35_CreateKeepsExistingFile ==
    [][\A input \in Payloads :
          (/\ last'.op = "create"
           /\ BuildYamlPath(input.name) \in DOMAIN files
           /\ files[BuildYamlPath(input.name)].kind # "truncated"
           /\ ~NameExists(index, input.name)
           /\ \A j \in DOMAIN index : index[j].fileName # BuildYamlPath(input.name)
           /\ \E ft \in Faults : CreateRule(input, ft[1], ft[2]))
          => \/ last'.status \in {400, 409, 500}
             \/ files'[BuildYamlPath(input.name)] = files[BuildYamlPath(input.name)]]_vars

----------------------------------------------------------------------------
(* Convergence and concurrent creates (SpecRace) *)

\* the rule names of a sequence of rules
RuleNames(rules) == {rules[i].name : i \in DOMAIN rules}

\* what discovery produces from the files on disk
OnDisk == DiscoverRules(discovery, files, IdMap(index), nextId).rules

\* the last reconciliation pass has run, and it ran over the directory as it
\* stands now: no file was written after it listed the directory
LastPassRan ==
    /\ procs["s"].pc = "done"
    /\ procs["s"].passes >= 1
    /\ RuleNames(procs["s"].out) = RuleNames(OnDisk)

\* C36: once every API call has returned and the last reconciliation pass
\* has run over the directory as it stands, the rule names of the index are
\* the rule names discovery produces from the files on disk, for every
\* interleaving of the calls with the passes.
C36_IndexAgreesWithDirectory ==
    (Quiet /\ LastPassRan) => RuleNames(index) = RuleNames(OnDisk)

\* two createRule calls for the same name, and syncFromDisk
NextTwin ==
    \/ \E p \in {"c1", "c3"} : CrLoad(p)
    \/ \E p \in {"c1", "c3"} : CrWrite(p)
    \/ \E p \in {"c1", "c3"} : CrSave(p)
    \/ SyLoad
    \/ SyDiscover
    \/ SySave

SpecTwin == InitRace /\ [][NextTwin]_vars

\* C37: of two concurrent createRule calls with the same name one succeeds
\* and the other fails with a conflict (409), however their load-index,
\* write-file and save-index steps interleave.
C37_OneOfTwoCreatesWins ==
    (procs["c1"].pc = "done" /\ procs["c3"].pc = "done")
    => {procs["c1"].status, procs["c3"].status} = {201, 409}

====
